---- MODULE Spec2Model ----
(***************************************************************************)
(* A model of app.py, the Streamlit script of the ENT applicant ranking.   *)
(*                                                                         *)
(* Streamlit runs the whole script once per user interaction; what lives   *)
(* across runs is st.session_state.  One action of the model is one run of *)
(* the script: the upload block (lines 11-52) while "df" is not in the     *)
(* session, the ranking / detail / reorder part (lines 54-119) afterwards. *)
(*                                                                         *)
(* Text is modelled by TLA+ strings, on which TLC evaluates Len, SubSeq    *)
(* and \o.  Numbers are fixed point: the integer n stands for n / 100, so  *)
(* "8.5" parses to 850 and a value rounded to one decimal is a multiple    *)
(* of 10.  Binary floating point error is not modelled.                    *)
(***************************************************************************)
EXTENDS Integers, Sequences, FiniteSets, TLC

VARIABLES
    session_state,     \* st.session_state: a function from its keys to values
    uploaded,          \* the CSV file handed to the last upload run
    status,            \* how the last run of the script ended
    complete_col,      \* upload block's local complete_col (<<>> is None)
    total_col,         \* upload block's local total_col (<<>> is None)
    ranking,           \* the ranking table shown by the last run
    selected,          \* the selectbox's value in the last run (<<>> is None)
    likert_questions,  \* the question columns detected by the last run
    ordered            \* what sort_items returned in the last run

vars == <<session_state, uploaded, status, complete_col, total_col,
          ranking, selected, likert_questions, ordered>>

(***************************************************************************)
(* Bounds of the model.                                                    *)
(***************************************************************************)
MaxRows == 2        \* rows of an enumerated CSV file
MaxOrder == 3       \* length of a sequence returned by the sortable

(***************************************************************************)
(* Text helpers: str.lower(), the `in` substring test, string order.       *)
(***************************************************************************)
UpperAlpha == "ABCDEFGHIJKLMNOPQRSTUVWXYZ"
LowerAlpha == "abcdefghijklmnopqrstuvwxyz"
\* The characters of the model's texts, in code point order.
CodeOrder == " .0123456789?ABCDEFGHIJKLMNOPQRSTUVWXYZ_abcdefghijklmnopqrstuvwxyz"

CharAt(s, i) == SubSeq(s, i, i)

\* the position of character c in alpha, 0 when it is not there
PosIn(alpha, c) ==
    IF \E i \in 1..Len(alpha) : CharAt(alpha, i) = c
    THEN CHOOSE i \in 1..Len(alpha) : CharAt(alpha, i) = c
    ELSE 0

\* tables over the characters, computed once
LowerOf == [c \in {CharAt(UpperAlpha, i) : i \in 1..Len(UpperAlpha)} |->
               CharAt(LowerAlpha, PosIn(UpperAlpha, c))]
CodeOf == [c \in {CharAt(CodeOrder, i) : i \in 1..Len(CodeOrder)} |-> PosIn(CodeOrder, c)]

LowerCh(c) == IF c \in DOMAIN LowerOf THEN LowerOf[c] ELSE c

RECURSIVE Lower(_)
Lower(s) == IF Len(s) = 0 THEN "" ELSE LowerCh(CharAt(s, 1)) \o Lower(SubSeq(s, 2, Len(s)))

\* sub in s
Contains(s, sub) == \E i \in 1..(Len(s) - Len(sub) + 1) : SubSeq(s, i, i + Len(sub) - 1) = sub

\* a < b for Python strings (code point order, a proper prefix is smaller)
RECURSIVE StrLess(_, _)
StrLess(a, b) ==
    IF Len(b) = 0 THEN FALSE
    ELSE IF Len(a) = 0 THEN TRUE
    ELSE IF CharAt(a, 1) = CharAt(b, 1)
         THEN StrLess(SubSeq(a, 2, Len(a)), SubSeq(b, 2, Len(b)))
         ELSE CodeOf[CharAt(a, 1)] < CodeOf[CharAt(b, 1)]

(***************************************************************************)
(* Numbers in text.  The texts of the model are unsigned decimals with at  *)
(* most two fractional digits; everything else is not a number.            *)
(***************************************************************************)
Digits == "0123456789"
DigitOf == [c \in {CharAt(Digits, i) : i \in 1..Len(Digits)} |-> PosIn(Digits, c) - 1]

IsDigits(s) == Len(s) > 0 /\ \A i \in 1..Len(s) : CharAt(s, i) \in DOMAIN DigitOf

RECURSIVE DigitsVal(_)
DigitsVal(s) ==
    IF Len(s) = 0 THEN 0
    ELSE 10 * DigitsVal(SubSeq(s, 1, Len(s) - 1)) + DigitOf[CharAt(s, Len(s))]

DotPos(s) == PosIn(s, ".")

IsNumber(s) ==
    IF DotPos(s) = 0 THEN IsDigits(s)
    ELSE /\ IsDigits(SubSeq(s, 1, DotPos(s) - 1))
         /\ IsDigits(SubSeq(s, DotPos(s) + 1, Len(s)))
         /\ Len(s) - DotPos(s) <= 2

\* the value of a numeric text, in hundredths
ParseNum(s) ==
    IF DotPos(s) = 0 THEN 100 * DigitsVal(s)
    ELSE LET frac == SubSeq(s, DotPos(s) + 1, Len(s))
         IN  100 * DigitsVal(SubSeq(s, 1, DotPos(s) - 1))
             + (IF Len(frac) = 1 THEN 10 * DigitsVal(frac) ELSE DigitsVal(frac))

(***************************************************************************)
(* Cells of a DataFrame: a float (NaN included) or a Python str.           *)
(***************************************************************************)
NaN == [k |-> "nan", n |-> 0, s |-> ""]
Num(n) == [k |-> "num", n |-> n, s |-> ""]
Str(s) == [k |-> "str", n |-> 0, s |-> s]

IsNa(c) == c.k = "nan"

\* pd.to_numeric(..., errors="coerce") on one cell
ToNumeric(c) ==
    IF c.k = "num" THEN c
    ELSE IF c.k = "str" /\ IsNumber(c.s) THEN Num(ParseNum(c.s))
    ELSE NaN

\* .astype(str) on one cell of an object column
AsStr(c) == IF c.k = "str" THEN c.s ELSE "nan"

(***************************************************************************)
(* DataFrames: [cols |-> the column names, rows |-> the rows, each a       *)
(* sequence of cells].  A CSV file has the same shape with texts as cells. *)
(***************************************************************************)
\* the rows with every cell evaluated (TLC keeps [i \in S |-> e] unevaluated)
Cells(rows) ==
    LET r == [i \in 1..Len(rows) |-> SubSeq(rows[i], 1, Len(rows[i]))]
    IN  SubSeq(r, 1, Len(r))

HasCol(t, name) == \E j \in 1..Len(t.cols) : t.cols[j] = name

ColIndex(t, name) == CHOOSE j \in 1..Len(t.cols) : t.cols[j] = name

Column(t, name) == [i \in 1..Len(t.rows) |-> t.rows[i][ColIndex(t, name)]]

RECURSIVE SelectSeq2(_, _)
\* the subsequence of the rows whose index satisfies keep (boolean indexing)
SelectSeq2(rows, keep) ==
    IF Len(rows) = 0 THEN <<>>
    ELSE LET rest == SelectSeq2(SubSeq(rows, 1, Len(rows) - 1), keep)
         IN  IF keep[Len(rows)] THEN Append(rest, rows[Len(rows)]) ELSE rest

FilterRows(t, keep) == [cols |-> t.cols, rows |-> SelectSeq2(t.rows, keep)]

\* pd.read_csv: a column all of whose non-empty texts are numbers is numeric
\* (empty cells NaN); any other column holds the texts (empty cells NaN).
\* A file without rows gives object columns.
NumericText(file, j) ==
    /\ Len(file.rows) > 0
    /\ \A i \in 1..Len(file.rows) : file.rows[i][j] = "" \/ IsNumber(file.rows[i][j])

ReadCsv(file) ==
    [cols |-> file.cols,
     rows |-> Cells([i \in 1..Len(file.rows) |->
                 [j \in 1..Len(file.cols) |->
                    LET text == file.rows[i][j]
                    IN  IF text = "" THEN NaN
                        ELSE IF NumericText(file, j) THEN Num(ParseNum(text))
                        ELSE Str(text)]])]

\* df[col].dtype in ['int64', 'float64']
NumericDtype(t, name) ==
    /\ Len(t.rows) > 0
    /\ \A i \in 1..Len(t.rows) : Column(t, name)[i].k # "str"

(***************************************************************************)
(* The upload block, lines 11-52.                                          *)
(***************************************************************************)
\* 'complete' in str(col).lower()
IsCompleteName(col) == Contains(Lower(col), "complete")

\* 'total' in str(col).lower() and 'score' in str(col).lower()
IsTotalName(col) == Contains(Lower(col), "total") /\ Contains(Lower(col), "score")

\* 'applicant' in str(c).lower()
IsApplicantName(col) == Contains(Lower(col), "applicant")

\* the for ... break loops and next(...): the first column that matches, <<>> for None
FirstOf(hits) == IF Len(hits) = 0 THEN <<>> ELSE <<hits[1]>>

FirstComplete(cols) == FirstOf(SelectSeq(cols, IsCompleteName))

FirstTotal(cols) == FirstOf(SelectSeq(cols, IsTotalName))

FirstApplicant(cols) == FirstOf(SelectSeq(cols, IsApplicantName))

\* a slip: the numeric code of "incomplete" taken for that of "complete"
IsCompleteCellCodeOne(numeric, c) ==
    IF numeric THEN c = Num(100)
    ELSE Contains(Lower(AsStr(c)), "complete")

\* the boolean mask of lines 26-29 for one cell of the completion column
IsCompleteCell(numeric, c) ==
    IF numeric THEN c = Num(200)
    ELSE Contains(Lower(AsStr(c)), "complete")

\* lines 25-31: keep the completed rows; without a completion column keep all
CompleteFilter(t) ==
    LET cc == FirstComplete(t.cols)
    IN  IF cc = <<>> THEN t
        ELSE LET numeric == NumericDtype(t, cc[1])
                 col == Column(t, cc[1])
             IN  FilterRows(t, [i \in 1..Len(t.rows) |-> IsCompleteCell(numeric, col[i])])

\* line 43: df_raw["total_score"] = pd.to_numeric(df_raw[total_col], errors="coerce")
\* (an existing column of that name is overwritten in place, else one is appended)
SetTotalScore(t, tc) ==
    LET vals == [i \in 1..Len(t.rows) |-> ToNumeric(Column(t, tc)[i])]
    IN  IF HasCol(t, "total_score")
        THEN [cols |-> t.cols,
              rows |-> Cells([i \in 1..Len(t.rows) |->
                          [j \in 1..Len(t.cols) |->
                             IF t.cols[j] = "total_score" THEN vals[i] ELSE t.rows[i][j]]])]
        ELSE [cols |-> Append(t.cols, "total_score"),
              rows |-> Cells([i \in 1..Len(t.rows) |-> Append(t.rows[i], vals[i])])]

\* lines 46-48: rename the applicant column, when there is one
RenameApplicant(t) ==
    LET ac == FirstApplicant(t.cols)
    IN  IF ac # <<>> /\ ac[1] # "Applicant Name"
        THEN [cols |-> LET c == [j \in 1..Len(t.cols) |->
                                    IF t.cols[j] = ac[1] THEN "Applicant Name" ELSE t.cols[j]]
                       IN  SubSeq(c, 1, Len(c)),
              rows |-> t.rows]
        ELSE t

\* st.session_state[key] = value
Put(f, key, value) == [x \in DOMAIN f \cup {key} |-> IF x = key THEN value ELSE f[x]]

\* a run without an uploaded file: st.stop() at line 15
NoFile ==
    /\ "df" \notin DOMAIN session_state
    /\ status' = "stopped"
    /\ UNCHANGED <<session_state, uploaded, complete_col, total_col,
                   ranking, selected, likert_questions, ordered>>

\* a slip: the table is stored before the total score column is looked for
CommittedBeforeCheck(s, filtered, tc) ==
    IF tc = <<>> THEN Put(s, "df", filtered)
    ELSE Put(s, "df", RenameApplicant(SetTotalScore(filtered, tc[1])))

\* what the upload run leaves in the session: nothing new when the total
\* score column is missing (st.stop at line 41), else the table of line 50
Committed(s, filtered, tc) ==
    IF tc = <<>> THEN s
    ELSE Put(s, "df", RenameApplicant(SetTotalScore(filtered, tc[1])))

\* a run with an uploaded file, one of files: lines 17-52
Upload(files) ==
    /\ "df" \notin DOMAIN session_state
    /\ \E file \in files :
        LET raw == ReadCsv(file)
            filtered == CompleteFilter(raw)
            tc == FirstTotal(filtered.cols)
            after == Committed(session_state, filtered, tc)
        IN  /\ uploaded' = file
            /\ complete_col' = FirstComplete(raw.cols)
            /\ total_col' = tc
            /\ session_state' = after
            /\ status' = IF tc = <<>> THEN "error"   \* st.error, st.stop
                         \* line 51 reads df_raw['Applicant Name']: KeyError without it
                         ELSE IF HasCol(after["df"], "Applicant Name") THEN "loaded"
                         ELSE "crash"
    /\ UNCHANGED <<ranking, selected, likert_questions, ordered>>

(***************************************************************************)
(* The ranking, lines 58-68.                                               *)
(***************************************************************************)
\* the group keys of df.groupby("Applicant Name"): the distinct values of the
\* column, NaN dropped, in sorted order
GroupKeys(df) ==
    {Column(df, "Applicant Name")[i].s :
        i \in {h \in 1..Len(df.rows) : ~IsNa(Column(df, "Applicant Name")[h])}}

RECURSIVE SortKeys(_)
SortKeys(S) ==
    IF S = {} THEN <<>>
    ELSE LET m == CHOOSE x \in S : \A y \in S \ {x} : StrLess(x, y)
         IN  <<m>> \o SortKeys(S \ {m})

\* the indices of the rows of one group
GroupRows(df, key) ==
    {i \in 1..Len(df.rows) : Column(df, "Applicant Name")[i] = Str(key)}

RECURSIVE SumOf(_, _)
SumOf(f, S) ==
    IF S = {} THEN 0
    ELSE LET i == CHOOSE x \in S : TRUE IN f[i].n + SumOf(f, S \ {i})

\* ("total_score", "count"): the number of non-null scores of the group
CountAgg(df, key) ==
    Cardinality({i \in GroupRows(df, key) : ~IsNa(Column(df, "total_score")[i])})

\* round(sum / n, 1) in hundredths, halves to the even tenth (numpy's rint)
Round1(sum, n) ==
    LET den == 10 * n
        fl == sum \div den
        rem == sum % den
    IN  10 * (IF 2 * rem < den THEN fl
              ELSE IF 2 * rem > den THEN fl + 1
              ELSE IF fl % 2 = 0 THEN fl ELSE fl + 1)

\* ("total_score", "mean") followed by .round(1): NaN for a group without scores
MeanAgg(df, key) ==
    LET valid == {i \in GroupRows(df, key) : ~IsNa(Column(df, "total_score")[i])}
    IN  IF valid = {} THEN NaN
        ELSE Num(Round1(SumOf(Column(df, "total_score"), valid), Cardinality(valid)))

\* lines 59-62: one row per group, in key order
Grouped(df) ==
    LET keys == SortKeys(GroupKeys(df))
    IN  [g \in 1..Len(keys) |->
            [Applicant |-> keys[g],
             n_evals |-> CountAgg(df, keys[g]),
             avg_score |-> MeanAgg(df, keys[g])]]

\* a slip: ascending=True
BeforeAscending(a, b) ==
    /\ ~IsNa(a.avg_score)
    /\ IsNa(b.avg_score) \/ a.avg_score.n < b.avg_score.n

\* a goes before b in sort_values("avg_score", ascending=False): NaN is last
Before(a, b) ==
    /\ ~IsNa(a.avg_score)
    /\ IsNa(b.avg_score) \/ a.avg_score.n > b.avg_score.n

\* insert x behind every row that does not come after it (a stable sort)
RECURSIVE InsertSorted(_, _)
InsertSorted(sorted, x) ==
    IF Len(sorted) = 0 THEN <<x>>
    ELSE IF Before(x, sorted[Len(sorted)])
         THEN Append(InsertSorted(SubSeq(sorted, 1, Len(sorted) - 1), x), sorted[Len(sorted)])
         ELSE Append(sorted, x)

RECURSIVE SortValues(_)
SortValues(rows) ==
    IF Len(rows) = 0 THEN <<>>
    ELSE InsertSorted(SortValues(SubSeq(rows, 1, Len(rows) - 1)), rows[Len(rows)])

\* a slip: range(len(ranking)), ranks from 0
RankFromZero(i) == i - 1

\* line 66: ranking.insert(0, "Rank", range(1, len(ranking) + 1))
RankOf(i) == i

\* lines 58-68
Ranking(df) ==
    LET sorted == SortValues(Grouped(df))
    IN  [i \in 1..Len(sorted) |->
            [Rank |-> RankOf(i),
             Applicant |-> sorted[i].Applicant,
             avg |-> sorted[i].avg_score,
             n_evals |-> sorted[i].n_evals]]

\* ranking["Applicant"].tolist()
Applicants(rk) == [i \in 1..Len(rk) |-> rk[i].Applicant]

(***************************************************************************)
(* The per-question detail, lines 75-89.                                   *)
(***************************************************************************)
known_non_likert ==
    {"Record ID", "Repeat Instrument", "Repeat Instance", "Survey Identifier",
     "Survey Timestamp", "total_score", "Complete?", "Applicant Name"}

\* line 76: df[df["Applicant Name"] == selected]  (selected is None without options)
Details(df, sel) ==
    FilterRows(df, [i \in 1..Len(df.rows) |->
                      sel # <<>> /\ Column(df, "Applicant Name")[i] = Str(sel[1])])

\* line 83
Excluded(col) == col \in known_non_likert

\* lines 85-86: the coerced column has a value that is not null
HasNumeric(details, col) ==
    \E i \in 1..Len(details.rows) : ~IsNa(ToNumeric(Column(details, col)[i]))

\* lines 81-89
LikertQuestions(details) ==
    LET Keep(col) == ~Excluded(col) /\ HasNumeric(details, col)
    IN  SelectSeq(details.cols, Keep)

(***************************************************************************)
(* A run with a loaded table, lines 54-119.  drag is <<>> when the user    *)
(* has not dragged (the sortable returns the items it was given) and <<s>> *)
(* when the sortable returns the sequence s.                               *)
(***************************************************************************)
\* a slip: the comparison of line 117 inverted
ReorderedInverted(current, returned) == IF returned = current THEN returned ELSE current

\* line 117-118: the value written back to final_order
Reordered(current, returned) == IF returned # current THEN returned ELSE current

\* a slip: final_order set from the ranking in every run
CurrentOrderReseeded(s, rk) == Applicants(rk)

\* lines 110-111: final_order is set from the ranking only when it is not there
CurrentOrder(s, rk) ==
    IF "final_order" \notin DOMAIN s THEN Applicants(rk) ELSE s["final_order"]

\* the options of the selectbox of line 75 (None when there are none)
Options(rk) == IF Len(rk) = 0 THEN {<<>>} ELSE {<<rk[i].Applicant>> : i \in 1..Len(rk)}

Render(drags) ==
    /\ "df" \in DOMAIN session_state
    /\ LET df == session_state["df"]
       IN  IF ~HasCol(df, "Applicant Name")
           THEN \* groupby("Applicant Name") raises KeyError at line 59
                /\ status' = "crash"
                /\ UNCHANGED <<session_state, ranking, selected, likert_questions, ordered>>
           ELSE LET rk == Ranking(df)
                    seeding == "final_order" \notin DOMAIN session_state
                    current == CurrentOrder(session_state, rk)
                IN  \* the first render of the sortable returns its default
                    \E sel \in Options(rk), drag \in IF seeding THEN {<<>>} ELSE drags :
                        LET returned == IF drag = <<>> THEN current ELSE drag[1]
                        IN  /\ ranking' = rk
                            /\ selected' = sel
                            /\ likert_questions' = LikertQuestions(Details(df, sel))
                            /\ ordered' = returned
                            /\ session_state' =
                                  Put(session_state, "final_order",
                                      Reordered(current, returned))
                            /\ status' = IF returned # current THEN "reordered" ELSE "rendered"
    /\ UNCHANGED <<uploaded, complete_col, total_col>>

(***************************************************************************)
(* The inputs.                                                             *)
(***************************************************************************)
NoUpload == [cols |-> <<>>, rows |-> <<>>]

Init ==
    /\ session_state = <<>>
    /\ uploaded = NoUpload
    /\ status = "start"
    /\ complete_col = <<>>
    /\ total_col = <<>>
    /\ ranking = <<>>
    /\ selected = <<>>
    /\ likert_questions = <<>>
    /\ ordered = <<>>

\* The enumerated files: a header, and for each column the texts its cells
\* are drawn from (dom), by the role of the column.
CellTexts(dom, col) ==
    CASE col \in {"Applicant Name", "applicant"} -> dom.applicant
      [] col \in {"Complete?", "Form Complete"} -> dom.complete
      [] col \in {"total_score", "Total Score"} -> dom.total
      [] OTHER -> dom.question

RECURSIVE RowSet(_, _)
RowSet(dom, h) ==
    IF Len(h) = 0 THEN {<<>>}
    ELSE {Append(r, c) : r \in RowSet(dom, SubSeq(h, 1, Len(h) - 1)),
                         c \in CellTexts(dom, h[Len(h)])}

FilesOf(dom, h, maxRows) ==
    UNION {[cols : {h}, rows : [1..n -> RowSet(dom, h)]] : n \in 0..maxRows}

\* every choice of presence and naming of the three discovered columns (a CSV
\* has at least one column: pd.read_csv raises on a file without any)
Headers ==
    {a \o c \o t \o q :
        a \in {<<>>, <<"Applicant Name">>, <<"applicant">>},
        c \in {<<>>, <<"Complete?">>, <<"Form Complete">>},
        t \in {<<>>, <<"total_score">>, <<"Total Score">>},
        q \in {<<>>, <<"Q1?">>}} \ {<<>>}

\* column discovery: every header, few texts
DiscoveryTexts ==
    [applicant |-> {"Alice"}, complete |-> {"2", "Complete"},
     total |-> {"7", "x"}, question |-> {"3", ""}]

\* the completion filter: numeric codes and words
CompletionTexts ==
    [applicant |-> {"Alice", "Bob"}, complete |-> {"2", "1", "Complete"},
     total |-> {"7", "x"}, question |-> {"3"}]

\* two columns of one role: the first one found is the one used
FirstMatchTexts ==
    [applicant |-> {"Alice"}, complete |-> {"2", "1", "Complete"},
     total |-> {"7", "x"}, question |-> {"3"}]

\* the aggregation: several scores, unparseable scores, a missing name
ScoreTexts ==
    [applicant |-> {"Alice", "Bob", ""}, complete |-> {"2"},
     total |-> {"7", "8", "x"}, question |-> {"3"}]

\* the scenarios of the specification's section 8, a pair of close scores, and
\* a file with an empty applicant cell
Scenarios ==
    {[cols |-> <<"Applicant Name", "Complete?", "Total Score">>,
      rows |-> <<<<"Alice", "Complete", "90">>, <<"Alice", "Complete", "80">>,
                 <<"Bob", "Complete", "70">>>>],
     [cols |-> <<"Applicant Name", "Complete?", "Total Score">>,
      rows |-> <<<<"Alice", "2", "90">>, <<"Alice", "1", "10">>, <<"Bob", "2", "70">>>>],
     [cols |-> <<"Applicant Name", "Complete?", "Total Score">>,
      rows |-> <<<<"Alice", "Complete", "0.31">>, <<"Bob", "Complete", "0.34">>>>],
     [cols |-> <<"Applicant Name", "Complete?", "total_score">>,
      rows |-> <<<<"", "Complete", "5">>, <<"Bob", "Complete", "x">>>>]}

DataFiles ==
    Scenarios
    \cup UNION {FilesOf(DiscoveryTexts, h, MaxRows) : h \in Headers}
    \cup FilesOf(CompletionTexts, <<"Applicant Name", "Complete?", "total_score">>, MaxRows)
    \cup FilesOf(CompletionTexts, <<"applicant", "Form Complete", "Total Score">>, MaxRows)
    \cup FilesOf(ScoreTexts, <<"Applicant Name", "total_score">>, MaxRows)
    \cup FilesOf(FirstMatchTexts, <<"Applicant Name", "Form Complete", "Complete?">>, MaxRows)
    \cup FilesOf(FirstMatchTexts, <<"Applicant Name", "Total Score", "total_score">>, MaxRows)

\* the files of the session specification: with and without the total score
\* column, with and without a completion column
SessionFiles ==
    Scenarios
    \cup FilesOf(ScoreTexts, <<"Applicant Name", "total_score">>, 1)
    \cup FilesOf(CompletionTexts, <<"Applicant Name", "Complete?">>, 1)
    \cup FilesOf(DiscoveryTexts, <<"Applicant Name", "Q1?">>, 1)

Names == {"Alice", "Bob", "Zed"}

\* what the sortable may return: nothing new, or any sequence of names
Drags == {<<>>} \cup {<<s>> : s \in UNION {[1..n -> Names] : n \in 0..MaxOrder}}

\* the session: uploads until one is accepted, then runs with every drag result
Next ==
    \/ NoFile
    \/ Upload(SessionFiles)
    \/ Render(Drags)

Spec == Init /\ [][Next]_vars

\* the data path: every enumerated file into a fresh session (a failed upload
\* is retried with the same file), and runs without drags
NextData ==
    \/ NoFile
    \/ Upload(IF uploaded = NoUpload THEN DataFiles ELSE {uploaded})
    \/ Render({<<>>})

SpecData == Init /\ [][NextData]_vars

(***************************************************************************)
(* The claims.  What they speak of is stated here on its own terms: the    *)
(* column names of the enumerated files by their lists, the rows of the    *)
(* uploaded file by their texts.                                           *)
(***************************************************************************)
HasDf == "df" \in DOMAIN session_state
HasFinalOrder == "final_order" \in DOMAIN session_state
Rendered == status \in {"rendered", "reordered"}

TotalLike == {"total_score", "Total Score"}
CompleteLike == {"Complete?", "Form Complete"}

Occurrences(seq, x) == Cardinality({i \in 1..Len(seq) : seq[i] = x})

IsPermutationOf(a, b) ==
    /\ Len(a) = Len(b)
    /\ \A i \in 1..Len(a) : Occurrences(a, a[i]) = Occurrences(b, a[i])

\* C1: in every reachable state FinalOrder is a permutation of the applicants of
\* the ranking it was seeded from: a returned sequence that is not a permutation
\* of the current FinalOrder (an element missing, duplicated or foreign) is
\* rejected and FinalOrder stays as it was.
C1_FinalOrderIsPermutation ==
    HasFinalOrder =>
        IsPermutationOf(session_state["final_order"],
                        Applicants(Ranking(session_state["df"])))

\* C2: an upload of a table without a column named like the total score ends
\* with the error and commits nothing: the session has no "df" and no
\* "final_order", so the next run enters the upload block again (line 11).
C2_MissingTotalCommitsNothing ==
    (uploaded # NoUpload /\ \A j \in 1..Len(uploaded.cols) : uploaded.cols[j] \notin TotalLike)
        => /\ ~HasDf
           /\ ~HasFinalOrder
           /\ status \in {"error", "stopped"}
           /\ total_col = <<>>

\* the upload failed after a completion column was found and a row was dropped
C2_Witness ==
    /\ status = "error"
    /\ ~HasDf
    /\ complete_col = <<"Complete?">>
    /\ uploaded.cols = <<"Applicant Name", "Complete?">>
    /\ Len(uploaded.rows) = 2
    /\ uploaded.rows[1][2] = "2"
    /\ uploaded.rows[2][2] = "Complete"

\* C3: a table committed to the session carries the "total_score" column and the
\* "Applicant Name" column, whatever the columns of the uploaded file.
C3_CommittedTableIsCanonical ==
    HasDf => /\ HasCol(session_state["df"], "total_score")
             /\ HasCol(session_state["df"], "Applicant Name")

\* the rows of the loaded table that belong to an applicant
RowsOfApplicant(df, name) ==
    {i \in 1..Len(df.rows) :
        \E j \in 1..Len(df.cols) :
            df.cols[j] = "Applicant Name" /\ df.rows[i][j] = Str(name)}

\* C4: the evaluation count of every ranked applicant is the number of that
\* applicant's rows in the loaded table, rows with a null score included.
C4_CountIsRowCount ==
    Rendered =>
        \A r \in 1..Len(ranking) :
            ranking[r].n_evals =
                Cardinality(RowsOfApplicant(session_state["df"], ranking[r].Applicant))

\* the distinct applicant identifiers of the loaded table
ApplicantsPresent(df) ==
    {df.rows[c[1]][c[2]].s :
        c \in {c \in (1..Len(df.rows)) \X (1..Len(df.cols)) :
                 /\ df.cols[c[2]] = "Applicant Name"
                 /\ df.rows[c[1]][c[2]].k = "str"}}

\* C5: the Rank column is 1, 2, ..., N in row order, N the number of distinct
\* applicant identifiers of the loaded (filtered) table, and each of them has
\* exactly one row of the ranking.
C5_RanksAreOneToN ==
    Rendered =>
        /\ Len(ranking) = Cardinality(ApplicantsPresent(session_state["df"]))
        /\ \A r \in 1..Len(ranking) : ranking[r].Rank = r
        /\ \A name \in ApplicantsPresent(session_state["df"]) :
              Cardinality({r \in 1..Len(ranking) : ranking[r].Applicant = name}) = 1

C5_Witness ==
    /\ Rendered
    /\ Len(ranking) = 2
    /\ ranking[2].Rank = 2
    /\ Len(session_state["df"].rows) < Len(uploaded.rows)

\* the first column of the file with a name of the set, 0 when there is none
FirstNamed(file, names) ==
    IF \E j \in 1..Len(file.cols) : file.cols[j] \in names
    THEN CHOOSE j \in 1..Len(file.cols) :
            /\ file.cols[j] \in names
            /\ \A h \in 1..(j - 1) : file.cols[h] \notin names
    ELSE 0

\* row i of the file is a completed record
IsRetained(file, i) ==
    LET j == FirstNamed(file, CompleteLike)
        numeric == \A h \in 1..Len(file.rows) :
                      file.rows[h][j] = "" \/ IsNumber(file.rows[h][j])
    IN  \/ j = 0
        \/ numeric /\ file.rows[i][j] = "2"
        \/ ~numeric /\ \E w \in {"complete", "Complete", "COMPLETE"} :
                          Contains(file.rows[i][j], w)

RetainedRows(file) ==
    LET Keep(i) == IsRetained(file, i)
    IN  SelectSeq([i \in 1..Len(file.rows) |-> i], Keep)

\* a cell of the loaded table holds what the text of the file says
CellHolds(c, text) ==
    \/ c.k = "str" /\ c.s = text
    \/ c.k = "num" /\ IsNumber(text) /\ ParseNum(text) = c.n
    \/ c.k = "nan" /\ text = ""

\* the score text and the applicant text of row i of the file, "" without the column
ScoreText(file, i) ==
    IF FirstNamed(file, TotalLike) = 0 THEN ""
    ELSE file.rows[i][FirstNamed(file, TotalLike)]

NameText(file, i) ==
    IF FirstNamed(file, {"Applicant Name", "applicant"}) = 0 THEN ""
    ELSE file.rows[i][FirstNamed(file, {"Applicant Name", "applicant"})]

ValidRows(df, name) ==
    {i \in RowsOfApplicant(df, name) :
        \E j \in 1..Len(df.cols) : df.cols[j] = "total_score" /\ df.rows[i][j].k = "num"}

ScoreSum(df, name) ==
    SumOf([i \in 1..Len(df.rows) |->
             df.rows[i][CHOOSE j \in 1..Len(df.cols) : df.cols[j] = "total_score"]],
          ValidRows(df, name))

Abs(x) == IF x < 0 THEN -x ELSE x

\* the Average Score of row r is the mean of the applicant's non-null scores to
\* one decimal, null without such scores
AverageIsRoundedMean(df, r) ==
    LET n == Cardinality(ValidRows(df, ranking[r].Applicant))
        sum == ScoreSum(df, ranking[r].Applicant)
    IN  IF n = 0 THEN IsNa(ranking[r].avg)
        ELSE /\ ranking[r].avg.k = "num"
             /\ ranking[r].avg.n % 10 = 0
             /\ 2 * Abs(sum - ranking[r].avg.n * n) <= 10 * n

SectionEightExample ==
    [cols |-> <<"Applicant Name", "Complete?", "Total Score">>,
     rows |-> <<<<"Alice", "Complete", "90">>, <<"Alice", "Complete", "80">>,
                <<"Bob", "Complete", "70">>>>]

\* what C7 says of the null averages and of the example
NullsLastAndExample ==
    /\ \A name \in ApplicantsPresent(session_state["df"]) :
          \E r \in 1..Len(ranking) : ranking[r].Applicant = name
    /\ \A r \in 1..Len(ranking) : AverageIsRoundedMean(session_state["df"], r)
    /\ \A q, r \in 1..Len(ranking) :
          (q < r /\ IsNa(ranking[q].avg)) => IsNa(ranking[r].avg)
    /\ uploaded = SectionEightExample =>
          ranking = <<[Rank |-> 1, Applicant |-> "Alice", avg |-> Num(8500), n_evals |-> 2],
                      [Rank |-> 2, Applicant |-> "Bob", avg |-> Num(7000), n_evals |-> 1]>>

\* C7 as stated: the ranking is in descending order of the mean of each
\* applicant's non-null total scores; an applicant without such scores is in
\* the ranking with a null average, behind every applicant that has one.
C7_DescendingByMean ==
    Rendered =>
        /\ NullsLastAndExample
        /\ \A q, r \in 1..Len(ranking) :
              LET df == session_state["df"]
                  nq == Cardinality(ValidRows(df, ranking[q].Applicant))
                  nr == Cardinality(ValidRows(df, ranking[r].Applicant))
              IN  (q < r /\ nq > 0 /\ nr > 0) =>
                      ScoreSum(df, ranking[q].Applicant) * nr
                          >= ScoreSum(df, ranking[r].Applicant) * nq

\* C7, amended: the ranking is in descending order of the Average Score, the
\* mean rounded to one decimal; applicants whose means round to the same value
\* are not ordered by their means.
C7_DescendingByRoundedMean ==
    Rendered =>
        /\ NullsLastAndExample
        /\ \A q, r \in 1..Len(ranking) :
              (q < r /\ ~IsNa(ranking[q].avg) /\ ~IsNa(ranking[r].avg)) =>
                  ranking[q].avg.n >= ranking[r].avg.n

\* Alice, first of the groups, has no score and stands behind Bob
C7_Witness ==
    /\ Rendered
    /\ Len(ranking) = 2
    /\ ranking[1].Applicant = "Bob"
    /\ ranking[1].avg.k = "num"
    /\ ranking[2].Applicant = "Alice"
    /\ IsNa(ranking[2].avg)

\* C8: FinalOrder is set from the ranking in the first run that renders the
\* loaded table, and once it is there a run changes it only by taking the
\* branch of line 117, to the sequence the sortable returned, which differs
\* from it; a run never sets it from the ranking again.
C8_SeededOnce ==
    [][/\ (HasDf /\ Rendered') => HasFinalOrder'
       /\ (~HasFinalOrder /\ HasFinalOrder') =>
             /\ Rendered'
             /\ session_state'["final_order"] = Applicants(ranking')
             /\ ranking' = Ranking(session_state["df"])
       /\ HasFinalOrder =>
             /\ HasFinalOrder'
             /\ session_state'["final_order"] # session_state["final_order"] =>
                   /\ status' = "reordered"
                   /\ ordered' # session_state["final_order"]
                   /\ session_state'["final_order"] = ordered']_vars

\* after a drag, a plain run shows another applicant's detail and keeps the order
C8_Witness ==
    /\ status = "rendered"
    /\ HasFinalOrder
    /\ Len(ranking) = 2
    /\ ranking[1].Applicant = "Alice"
    /\ selected = <<"Bob">>
    /\ session_state["final_order"] = <<"Bob", "Alice">>

\* C9: a run in which the sortable returns the current FinalOrder changes
\* nothing; FinalOrder is the returned sequence P after every run, so a second
\* run returning P leaves it P.
C9_ReorderNoOpIdempotent ==
    [][/\ HasFinalOrder' => session_state'["final_order"] = ordered'
       /\ (HasFinalOrder /\ Rendered' /\ ordered' = session_state["final_order"]) =>
             /\ session_state' = session_state
             /\ status' = "rendered"]_vars

\* the order P = <<Bob, Alice>> was returned again and stayed
C9_Witness ==
    /\ status = "rendered"
    /\ HasFinalOrder
    /\ Applicants(ranking) = <<"Alice", "Bob">>
    /\ ordered = <<"Bob", "Alice">>
    /\ session_state["final_order"] = ordered

\* the metadata columns of the loaded table: the fixed names and the columns
\* the upload resolved as total score and completion status
IsMetadata(col) ==
    \/ col \in known_non_likert
    \/ col \in {total_col[i] : i \in 1..Len(total_col)}
    \/ col \in {complete_col[i] : i \in 1..Len(complete_col)}

\* C10: the question columns of the selected applicant are exactly the columns
\* that are not metadata and hold a number in one of the applicant's rows; the
\* resolved total score and completion columns are never among them.
C10_QuestionColumns ==
    Rendered =>
        LET df == session_state["df"]
            mine == IF selected = <<>> THEN {} ELSE RowsOfApplicant(df, selected[1])
        IN  {likert_questions[q] : q \in 1..Len(likert_questions)}
               = {df.cols[j] : j \in {h \in 1..Len(df.cols) :
                     /\ ~IsMetadata(df.cols[h])
                     /\ \E i \in mine : ToNumeric(df.rows[i][h]).k = "num"}}

====
